---------------------------- MODULE Spec2Model ----------------------------
(***************************************************************************)
(* Git-Cheat: the two scripts git_transfer_fixed.py and gitcheat.py.  Each *)
(* reads its inputs, then transfer_repo clones a repository, rewrites the  *)
(* authorship with git filter-repo, optionally assigns random commit dates *)
(* (generate_random_date_range, the correlation of dates to commits and    *)
(* git filter-branch), adds a remote and mirror-pushes.                    *)
(*                                                                         *)
(* Text (URLs, date strings) is a sequence of one-character strings.  A    *)
(* naive datetime is its number of seconds since 1970-01-01 00:00:00 on    *)
(* its own wall clock; all datetimes of the scripts are whole seconds.     *)
(***************************************************************************)
EXTENDS Integers, Sequences, FiniteSets, TLC

(***************************************************************************)
(* Bounds of the model.                                                    *)
(***************************************************************************)
\* The largest number of commits the cloned repository holds.
MaxCommits == 3

(***************************************************************************)
(* Text helpers.                                                           *)
(***************************************************************************)
Digits == {"0", "1", "2", "3", "4", "5", "6", "7", "8", "9"}

DigitVal ==
    "0" :> 0 @@ "1" :> 1 @@ "2" :> 2 @@ "3" :> 3 @@ "4" :> 4 @@
    "5" :> 5 @@ "6" :> 6 @@ "7" :> 7 @@ "8" :> 8 @@ "9" :> 9

AllDigits(s) == \A i \in 1..Len(s) : s[i] \in Digits

RECURSIVE Num(_)
Num(s) == IF s = <<>> THEN 0
          ELSE 10 * Num(SubSeq(s, 1, Len(s) - 1)) + DigitVal[s[Len(s)]]

\* str.startswith(prefix)
StartsWith(s, prefix) ==
    /\ Len(s) >= Len(prefix)
    /\ SubSeq(s, 1, Len(prefix)) = prefix

\* str.endswith(suffix)
EndsWith(s, suffix) ==
    /\ Len(s) >= Len(suffix)
    /\ SubSeq(s, Len(s) - Len(suffix) + 1, Len(s)) = suffix

\* str.replace(old, ""): every non-overlapping occurrence of old, scanning
\* from the left, is removed.
RECURSIVE RemoveAll(_, _)
RemoveAll(s, old) ==
    IF s = <<>> THEN <<>>
    ELSE IF StartsWith(s, old)
         THEN RemoveAll(SubSeq(s, Len(old) + 1, Len(s)), old)
         ELSE <<s[1]>> \o RemoveAll(SubSeq(s, 2, Len(s)), old)

(***************************************************************************)
(* datetime.strptime(text, "%Y-%m-%d") and the calendar arithmetic of      *)
(* datetime and timedelta.                                                 *)
(***************************************************************************)
SecondsPerDay == 86400

IsLeap(y) == (y % 4 = 0) /\ ((y % 100 # 0) \/ (y % 400 = 0))

DaysInMonth(y, m) ==
    IF m = 2 THEN (IF IsLeap(y) THEN 29 ELSE 28)
    ELSE IF m \in {4, 6, 9, 11} THEN 30 ELSE 31

RECURSIVE DaysBeforeMonth(_, _)
DaysBeforeMonth(y, m) ==
    IF m = 1 THEN 0 ELSE DaysBeforeMonth(y, m - 1) + DaysInMonth(y, m - 1)

DaysBeforeYear(y) ==
    (y - 1) * 365 + ((y - 1) \div 4) - ((y - 1) \div 100) + ((y - 1) \div 400)

\* date.toordinal(): 0001-01-01 is day 1.
ToOrdinal(y, m, d) == DaysBeforeYear(y) + DaysBeforeMonth(y, m) + d

\* The ordinal of 1970-01-01, from which the model counts seconds.
EpochOrdinal == ToOrdinal(1970, 1, 1)

\* The naive datetime y-m-d 00:00:00.
Midnight(y, m, d) == (ToOrdinal(y, m, d) - EpochOrdinal) * SecondsPerDay

\* strptime's pattern for "%Y-%m-%d": four digits, "-", a month written
\* with one or two digits (1..12), "-", a day written with one or two
\* digits (1..31), and nothing more.
MatchesFormat(s) ==
    /\ Len(s) >= 8
    /\ AllDigits(SubSeq(s, 1, 4))
    /\ s[5] = "-"
    /\ \E p \in {7, 8} :
          /\ p < Len(s)
          /\ s[p] = "-"
          /\ Len(s) - p \in {1, 2}
          /\ AllDigits(SubSeq(s, 6, p - 1))
          /\ AllDigits(SubSeq(s, p + 1, Len(s)))
          /\ Num(SubSeq(s, 6, p - 1)) \in 1..12
          /\ Num(SubSeq(s, p + 1, Len(s))) \in 1..31

DateFields(s) ==
    LET p == CHOOSE q \in {7, 8} : q < Len(s) /\ s[q] = "-"
    IN  [y |-> Num(SubSeq(s, 1, 4)),
         m |-> Num(SubSeq(s, 6, p - 1)),
         d |-> Num(SubSeq(s, p + 1, Len(s)))]

\* strptime raises ValueError when the text does not match the format or
\* names no day of the calendar (year 0, 30 February, ...).
StrptimeOk(s) ==
    /\ MatchesFormat(s)
    /\ LET f == DateFields(s) IN f.y >= 1 /\ f.d <= DaysInMonth(f.y, f.m)

Strptime(s) == LET f == DateFields(s) IN Midnight(f.y, f.m, f.d)

(***************************************************************************)
(* list.sort() on datetimes: ascending, by insertion.                      *)
(***************************************************************************)
RECURSIVE Insert(_, _)
Insert(x, s) ==
    IF s = <<>> THEN <<x>>
    ELSE IF x < s[1] THEN <<x>> \o s
         ELSE <<s[1]>> \o Insert(x, Tail(s))

\* A sort that leaves the list as it was appended.
SortDatesSkipped(s) == s

RECURSIVE SortDates(_)
SortDates(s) ==
    IF s = <<>> THEN <<>> ELSE Insert(s[Len(s)], SortDates(SubSeq(s, 1, Len(s) - 1)))

(***************************************************************************)
(* validate_repo_url and extract_repo_name.                                *)
(***************************************************************************)
HttpPrefix == <<"h", "t", "t", "p", ":", "/", "/">>
HttpsPrefix == <<"h", "t", "t", "p", "s", ":", "/", "/">>
GitAtPrefix == <<"g", "i", "t", "@">>
DotGit == <<".", "g", "i", "t">>
GithubCom == <<"g", "i", "t", "h", "u", "b", ".", "c", "o", "m", "/">>

ValidRepoUrl(url) ==
    StartsWith(url, HttpPrefix) \/ StartsWith(url, HttpsPrefix) \/ StartsWith(url, GitAtPrefix)

Slashes(s) == {i \in 1..Len(s) : s[i] = "/"}

Max(S) == CHOOSE x \in S : \A y \in S : y <= x
Min(S) == CHOOSE x \in S : \A y \in S : x <= y

\* re.search(r"/([^/]+?)(\.git)?$", url): the text after the last "/" must
\* be non-empty; the lazy group 1 stops before a final ".git" when something
\* precedes it.
StandardMatches(url) == Slashes(url) # {} /\ Max(Slashes(url)) < Len(url)

StandardGroup(url) ==
    LET rest == SubSeq(url, Max(Slashes(url)) + 1, Len(url))
    IN  IF Len(rest) > Len(DotGit) /\ EndsWith(rest, DotGit)
        THEN SubSeq(rest, 1, Len(rest) - Len(DotGit))
        ELSE rest

\* re.search(r"github\.com/[^/]+/([^/\.]+)", url): "github.com/", an owner
\* up to the next "/", then the longest run of characters other than "/"
\* and ".".
GithubStarts(url) ==
    {i \in 1..Len(url) :
        /\ StartsWith(SubSeq(url, i, Len(url)), GithubCom)
        /\ \E q \in Slashes(url) :
              /\ q > i + Len(GithubCom)
              /\ \A j \in (i + Len(GithubCom))..(q - 1) : url[j] # "/"
              /\ q < Len(url)
              /\ url[q + 1] \notin {"/", "."}}

GithubGroup(url) ==
    LET i == Min(GithubStarts(url))
        q == Min({j \in Slashes(url) : j > i + Len(GithubCom)})
        e == Max({j \in (q + 1)..Len(url) :
                     \A k \in (q + 1)..j : url[k] \notin {"/", "."}})
    IN  SubSeq(url, q + 1, e)

\* found = FALSE is the None the function returns after logging.
ExtractRepoName(url) ==
    IF StandardMatches(url)
    THEN [found |-> TRUE, name |-> RemoveAll(StandardGroup(url), DotGit)]
    ELSE IF GithubStarts(url) # {}
         THEN [found |-> TRUE, name |-> GithubGroup(url)]
         ELSE [found |-> FALSE, name |-> <<>>]

(***************************************************************************)
(* generate_random_date_range.                                             *)
(***************************************************************************)
\* A check that lets start = end through.
InvalidRangeStrict(start, end) == start > end

\* "if start >= end": the range is rejected.
InvalidRange(start, end) == start >= end

\* time_diff.days
SpanDays(start, end) == (end - start) \div SecondsPerDay

\* A draw that may pass the last day of the range.
DayDrawsPastEnd(span) == 0..(span + 1)

\* random.randint(0, time_diff.days): both ends included.  For a long span
\* the model draws the ends and their neighbours.
DayDraws(span) == {d \in 0..span : d <= 1 \/ d >= span - 1}

\* random.randint(0, 86400): both ends included.  The model draws the two
\* ends and two times of the night, 02:30:00 and 03:00:00.
SecondDraws == {s \in 0..SecondsPerDay : s \in {0, 9000, 10800, SecondsPerDay}}

\* One iteration's pair of draws.
Draws(start, end) ==
    IF InvalidRange(start, end) THEN {}
    ELSE DayDraws(SpanDays(start, end)) \X SecondDraws

\* A loop that stops one iteration early.
IterationsOffByOne(start, end, num_commits) ==
    IF start >= end \/ num_commits = 0 THEN 0 ELSE num_commits - 1

\* range(num_commits): the number of iterations of the loop.
Iterations(start, end, num_commits) ==
    IF InvalidRange(start, end) THEN 0 ELSE num_commits

\* start + timedelta(days=random_days, seconds=random_seconds)
RandomDate(start, draw) == start + draw[1] * SecondsPerDay + draw[2]

\* The list the function returns once start_date and end_date are parsed,
\* given the draws its loop made.
GenerateRandomDateRange(start, end, draws) ==
    IF InvalidRange(start, end) THEN <<>>
    ELSE SortDates([i \in 1..Len(draws) |-> RandomDate(start, draws[i])])

(***************************************************************************)
(* random_dates[i].timestamp(): a naive datetime is read on the wall clock *)
(* of the process's time zone.  Two zones: UTC, and US Eastern time with   *)
(* its daylight-saving rules of 2020 and 2021.  A wall-clock time inside   *)
(* the spring gap (02:00 to 03:00) is read with the offset in force before *)
(* the gap; an ambiguous autumn time is read as its first occurrence.      *)
(***************************************************************************)
TimeZones == {"UTC", "US/Eastern"}

Hour == 3600

\* Daylight saving of 2020 and 2021 on the wall clock: from 03:00 on the
\* second Sunday of March to 02:00 on the first Sunday of November.
DstBegin2020 == Midnight(2020, 3, 8) + 3 * Hour
DstEnd2020 == Midnight(2020, 11, 1) + 2 * Hour
DstBegin2021 == Midnight(2021, 3, 14) + 3 * Hour
DstEnd2021 == Midnight(2021, 11, 7) + 2 * Hour

InDst(t) ==
    \/ DstBegin2020 <= t /\ t < DstEnd2020
    \/ DstBegin2021 <= t /\ t < DstEnd2021

UtcOffset(zone, t) ==
    IF zone = "UTC" THEN 0
    ELSE IF InDst(t) THEN 0 - 4 * Hour ELSE 0 - 5 * Hour

\* int(d.timestamp())
Timestamp(zone, t) == t - UtcOffset(zone, t)

(***************************************************************************)
(* The correlation of dates to commits in transfer_repo:                   *)
(*   for i, commit in enumerate(commits):                                  *)
(*       if i < len(random_dates): map[commit] = int(dates[i].timestamp()) *)
(***************************************************************************)
IndexOf(seq, x) == Max({i \in 1..Len(seq) : seq[i] = x})

Correlate(zone, commitList, dates) ==
    [c \in {commitList[i] : i \in {j \in 1..Len(commitList) : j <= Len(dates)}} |->
        Timestamp(zone, dates[IndexOf(commitList, c)])]

(***************************************************************************)
(* The inputs the model draws.                                             *)
(***************************************************************************)
Scripts == {"git_transfer_fixed", "gitcheat"}

UrlPlain == <<"h", "t", "t", "p", "s", ":", "/", "/", "h", "/", "r", ".", "g", "i", "t">>
UrlGithubSlash ==
    <<"h", "t", "t", "p", "s", ":", "/", "/", "g", "i", "t", "h", "u", "b", ".", "c", "o", "m",
      "/", "u", "/", "r", "/">>
UrlFtp == <<"f", "t", "p", ":", "/", "/", "h", "/", "r">>
UrlNoSlash == <<"g", "i", "t", "@", "h", ":", "r">>
UrlOnlyDotGit == <<"h", "t", "t", "p", "s", ":", "/", "/", "h", "/", ".", "g", "i", "t">>

OldUrls == {UrlPlain, UrlGithubSlash, UrlFtp, UrlNoSlash, UrlOnlyDotGit}
NewUrls == {UrlPlain, UrlFtp}

D20200101 == <<"2", "0", "2", "0", "-", "0", "1", "-", "0", "1">>
D20200102 == <<"2", "0", "2", "0", "-", "0", "1", "-", "0", "2">>
D20210313 == <<"2", "0", "2", "1", "-", "0", "3", "-", "1", "3">>
D20210315 == <<"2", "0", "2", "1", "-", "3", "-", "1", "5">>
DSlashes == <<"2", "0", "2", "0", "/", "0", "1", "/", "0", "1">>
DFeb30 == <<"2", "0", "2", "0", "-", "0", "2", "-", "3", "0">>

\* The (start_date, end_date) pairs typed at the prompts.
DateInputs ==
    {<<D20200101, D20200102>>, <<D20210313, D20210315>>,
     <<D20200101, D20200101>>, <<D20200102, D20200101>>,
     <<DSlashes, D20200102>>, <<D20200101, DFeb30>>}

\* None (and the empty text, which the scripts treat alike).
None == <<>>

\* The runs of the model: every pair of URLs without date modification;
\* with the plain URLs, every pair of dates in UTC and the pair of March
\* 2021, which spans the start of daylight saving, in US Eastern time.
Runs ==
    [zone : {"UTC"}, old : OldUrls, new : NewUrls, modify : {FALSE}, dates : {<<None, None>>}]
    \cup
    [zone : {"UTC"}, old : {UrlPlain}, new : {UrlPlain}, modify : {TRUE},
     dates : DateInputs \ {<<D20210313, D20210315>>}]
    \cup
    [zone : {"US/Eastern"}, old : {UrlPlain}, new : {UrlPlain}, modify : {TRUE},
     dates : {<<D20210313, D20210315>>}]

(***************************************************************************)
(* State.                                                                  *)
(***************************************************************************)
VARIABLES
    script,          \* which of the two scripts runs
    zone,            \* the time zone of the process
    old_repo_url, new_repo_url, modify_dates, start_date, end_date, confirm,
    pc,              \* the statement the run has reached
    exit_status,     \* the process's exit status; -1 while it runs
    logged,          \* the messages the script has logged
    issued,          \* the external commands issued so far, in order
    failed,          \* the command whose failure ended the run, or "none"
    cwd,             \* the working directory
    bare_exists,     \* whether <repo_name>.git exists in the original directory
    bare_repo,       \* transfer_repo's bare_repo
    repo,            \* the commits of the clone, oldest first
    commit_count, random_dates, commits, commit_date_map,
    gen_calls,       \* the calls of generate_random_date_range so far
    applied          \* the dates git filter-branch has written, by commit

vars ==
    <<script, zone, old_repo_url, new_repo_url, modify_dates, start_date, end_date, confirm,
      pc, exit_status, logged, issued, failed, cwd, bare_exists, bare_repo, repo,
      commit_count, random_dates, commits, commit_date_map, gen_calls, applied>>

inputs ==
    <<script, zone, old_repo_url, new_repo_url, modify_dates, start_date, end_date, confirm>>

EmptyMap == [c \in {} |-> 0]

Init ==
    /\ script \in Scripts
    /\ \E run \in Runs :
          /\ zone = run.zone
          /\ old_repo_url = run.old
          /\ new_repo_url = run.new
          /\ modify_dates = run.modify
          /\ start_date = run.dates[1]
          /\ end_date = run.dates[2]
    /\ confirm \in BOOLEAN
    /\ pc = "main"
    /\ exit_status = -1
    /\ logged = {}
    /\ issued = <<>>
    /\ failed = "none"
    /\ cwd = "original"
    /\ bare_exists \in BOOLEAN
    /\ bare_repo = None
    /\ repo = <<>>
    /\ commit_count = 0
    /\ random_dates = <<>>
    /\ commits = <<>>
    /\ commit_date_map = EmptyMap
    /\ gen_calls = <<>>
    /\ applied = EmptyMap

dateVars == <<commit_count, random_dates, commits, commit_date_map, gen_calls, applied>>

(***************************************************************************)
(* Messages of the scripts.                                                *)
(***************************************************************************)
MsgInvalidUrl == "Invalid repository URL"
MsgCouldNotExtract == "Could not extract repository name from URL"
MsgFailedExtract == "Failed to extract repository name. Exiting."
MsgRemoving == "Removing existing directory"
MsgCloneMissing == "Failed to clone repository. Directory not found."
MsgInstallFailed == "Failed to install git-filter-repo"
MsgInvalidRange == "Start date must be before end date"
MsgMismatch == "Commit count mismatch"
MsgComplete == "Repository transfer complete!"
MsgException == "An error occurred"
MsgCleaning == "Cleaning up temporary repository"
MsgDateFormat == "Invalid date format. Please use YYYY-MM-DD format."
MsgCancelled == "Transfer cancelled."

(***************************************************************************)
(* The end of transfer_repo: its finally block, then the exit status.      *)
(* status is 1 after exit(1), 0 after a return or the last statement.      *)
(* os.path.exists(bare_repo) is relative to the working directory: the     *)
(* clone is visible from the original directory only.                      *)
(***************************************************************************)
Visible(cwdNow, existsNow, bareNow) ==
    bareNow # None /\ cwdNow = "original" /\ existsNow

Leave(status, command, msgs, cwdNow, existsNow, bareNow) ==
    /\ pc' = "exited"
    /\ exit_status' = status
    /\ failed' = command
    /\ bare_repo' = bareNow
    /\ IF script = "git_transfer_fixed"
       THEN \* os.chdir(original_dir), then the clone is removed if it is there
            /\ cwd' = "original"
            /\ bare_exists' = (existsNow /\ bareNow = None)
            /\ logged' = logged \cup msgs \cup
                           (IF Visible("original", existsNow, bareNow) THEN {MsgCleaning} ELSE {})
       ELSE \* os.chdir("..") and rmtree(bare_repo) only if bare_repo is visible
            \* from where the run stands; the message is logged in any case
            /\ cwd' = (IF Visible(cwdNow, existsNow, bareNow) THEN "parent" ELSE cwdNow)
            /\ bare_exists' = existsNow
            /\ logged' = logged \cup msgs \cup {MsgComplete}

(***************************************************************************)
(* The script's top level: the prompts, the date format check and the      *)
(* confirmation, up to the call of transfer_repo.                          *)
(***************************************************************************)
Main ==
    /\ pc = "main"
    /\ IF modify_dates /\ ~(StrptimeOk(start_date) /\ StrptimeOk(end_date))
       THEN /\ pc' = "exited"
            /\ exit_status' = 1
            /\ logged' = logged \cup {MsgDateFormat}
       ELSE IF ~confirm
            THEN /\ pc' = "exited"
                 /\ exit_status' = 0
                 /\ logged' = logged \cup {MsgCancelled}
            ELSE /\ pc' = "transfer_repo"
                 /\ UNCHANGED <<exit_status, logged>>
    /\ UNCHANGED <<inputs, issued, failed, cwd, bare_exists, bare_repo, repo, dateVars>>

(***************************************************************************)
(* transfer_repo up to the clone: the URL checks, the repository name and  *)
(* (git_transfer_fixed) the removal of an existing clone directory.        *)
(***************************************************************************)
TransferRepo ==
    /\ pc = "transfer_repo"
    /\ LET r == ExtractRepoName(old_repo_url)
       IN  IF ~ValidRepoUrl(old_repo_url) \/ ~ValidRepoUrl(new_repo_url)
           THEN Leave(1, "none", {MsgInvalidUrl}, cwd, bare_exists, None)
           ELSE IF ~r.found \/ r.name = <<>>
                THEN Leave(0, "none",
                           {MsgFailedExtract} \cup (IF r.found THEN {} ELSE {MsgCouldNotExtract}),
                           cwd, bare_exists, None)
                ELSE /\ bare_repo' = r.name \o DotGit
                     /\ pc' = "clone"
                     /\ IF script = "git_transfer_fixed" /\ bare_exists
                        THEN /\ bare_exists' = FALSE
                             /\ logged' = logged \cup {MsgRemoving}
                        ELSE UNCHANGED <<bare_exists, logged>>
                     /\ UNCHANGED <<exit_status, failed, cwd>>
    /\ UNCHANGED <<inputs, issued, repo, dateVars>>

\* The commits a fresh clone holds.
Commits(n) == [i \in 1..n |-> i]

(***************************************************************************)
(* git clone --bare, then the change into the clone directory.             *)
(***************************************************************************)
Clone ==
    /\ pc = "clone"
    /\ issued' = Append(issued, "clone")
    /\ \E rc \in {0, 1} :
          IF rc # 0
          THEN /\ Leave(1, "clone", {}, cwd, bare_exists, bare_repo)
               /\ UNCHANGED repo
          ELSE \E made \in BOOLEAN :
                  IF ~(bare_exists \/ made)
                  THEN /\ UNCHANGED repo
                       /\ IF script = "git_transfer_fixed"
                          THEN Leave(0, "none", {MsgCloneMissing}, cwd, FALSE, bare_repo)
                          ELSE \* os.chdir raises FileNotFoundError
                               Leave(1, "none", {MsgException}, cwd, FALSE, bare_repo)
                  ELSE /\ \E n \in 0..MaxCommits : repo' = Commits(n)
                       /\ cwd' = "bare_repo"
                       /\ bare_exists' = TRUE
                       /\ pc' = "ensure"
                       /\ UNCHANGED <<exit_status, failed, logged, bare_repo>>
    /\ UNCHANGED <<inputs, dateVars>>

(***************************************************************************)
(* ensure_git_filter_repo: "which", and when it prints nothing the         *)
(* installation attempts, each followed by "which" again.                  *)
(***************************************************************************)
EnsureOutcomes ==
    {"found", "pip", "missing"} \cup (IF script = "gitcheat" THEN {"download"} ELSE {})

EnsureCommands(outcome) ==
    IF outcome = "found" THEN <<"which">>
    ELSE IF outcome = "pip" \/ script = "git_transfer_fixed"
         THEN <<"which", "pip", "which">>
         ELSE <<"which", "pip", "which", "curl", "chmod", "mv", "which">>

EnsureGitFilterRepo ==
    /\ pc = "ensure"
    /\ \E outcome \in EnsureOutcomes :
          /\ issued' = issued \o EnsureCommands(outcome)
          /\ IF outcome = "missing"
             THEN Leave(1, "git-filter-repo", {MsgInstallFailed}, cwd, bare_exists, bare_repo)
             ELSE /\ pc' = "count"
                  /\ UNCHANGED <<exit_status, failed, logged, cwd, bare_exists, bare_repo>>
    /\ UNCHANGED <<inputs, repo, dateVars>>

(***************************************************************************)
(* get_commit_count: git rev-list --count --all; 0 when the command fails  *)
(* or prints nothing.  Called before the author rewrite and, in            *)
(* git_transfer_fixed, again before the dates are generated.               *)
(***************************************************************************)
GetCommitCount ==
    /\ pc \in {"count", "recount"}
    /\ issued' = Append(issued, "rev-list")
    /\ \E ok \in BOOLEAN : commit_count' = (IF ok THEN Len(repo) ELSE 0)
    /\ pc' = (IF pc = "count" THEN "filter_repo" ELSE "generate")
    /\ UNCHANGED <<inputs, exit_status, logged, failed, cwd, bare_exists, bare_repo, repo,
                   random_dates, commits, commit_date_map, gen_calls, applied>>

(***************************************************************************)
(* Step 1, the author rewrite with git filter-repo, which may drop         *)
(* commits; then the test "if modify_dates and start_date and end_date".   *)
(***************************************************************************)
FilterRepo ==
    /\ pc = "filter_repo"
    /\ issued' = Append(issued, "filter-repo")
    /\ \E rc \in {0, 1} :
          IF rc # 0
          THEN /\ Leave(1, "filter-repo", {}, cwd, bare_exists, bare_repo)
               /\ UNCHANGED repo
          ELSE /\ \E k \in 0..Len(repo) : repo' = Commits(k)
               /\ pc' = (IF modify_dates /\ start_date # None /\ end_date # None
                         THEN (IF script = "git_transfer_fixed" THEN "recount" ELSE "generate")
                         ELSE "remote")
               /\ UNCHANGED <<exit_status, failed, logged, cwd, bare_exists, bare_repo>>
    /\ UNCHANGED <<inputs, dateVars>>

(***************************************************************************)
(* One call of generate_random_date_range(start_date, end_date, count):    *)
(* the list it returns, the record of the call and what it logs.           *)
(***************************************************************************)
CallRecord(count, draws, result) ==
    [num_commits |-> count, draws |-> Len(draws), returned |-> Len(result)]

RangeMsgs(start, end) == IF InvalidRange(start, end) THEN {MsgInvalidRange} ELSE {}

\* The sequences of draws a call with this count may make.
DrawSequences(start, end, count) == [1..Iterations(start, end, count) -> Draws(start, end)]

(***************************************************************************)
(* Step 2: random_dates = generate_random_date_range(start_date, end_date, *)
(* commit_count).  A date text strptime rejects raises ValueError, which   *)
(* transfer_repo catches.                                                  *)
(***************************************************************************)
GenerateDates ==
    /\ pc = "generate"
    /\ IF ~(StrptimeOk(start_date) /\ StrptimeOk(end_date))
       THEN /\ Leave(1, "none", {MsgException}, cwd, bare_exists, bare_repo)
            /\ UNCHANGED <<random_dates, gen_calls>>
       ELSE LET start == Strptime(start_date)
                end == Strptime(end_date)
                msgs == logged \cup RangeMsgs(start, end)
            IN  \E draws \in DrawSequences(start, end, commit_count) :
                   LET result == GenerateRandomDateRange(start, end, draws)
                   IN  /\ random_dates' = result
                       /\ gen_calls' = Append(gen_calls, CallRecord(commit_count, draws, result))
                       /\ logged' = msgs
                       /\ pc' = "log"
                       /\ UNCHANGED <<exit_status, failed, cwd, bare_exists, bare_repo>>
    /\ UNCHANGED <<inputs, issued, repo, commit_count, commits, commit_date_map, applied>>

(***************************************************************************)
(* git log --all --format='%H' --reverse, then the correlation.            *)
(* git_transfer_fixed compares the two lengths, warns when they differ and *)
(* generates the dates again when there are more commits than dates;       *)
(* gitcheat does neither.                                                  *)
(***************************************************************************)
Regenerates(commitList, dates) ==
    script = "git_transfer_fixed" /\ Len(commitList) > Len(dates)

MismatchMsgs(commitList, dates) ==
    IF script = "git_transfer_fixed" /\ Len(commitList) # Len(dates) THEN {MsgMismatch} ELSE {}

ListCommits ==
    /\ pc = "log"
    /\ issued' = Append(issued, "log")
    /\ \E rc \in {0, 1} :
          IF rc # 0
          THEN /\ Leave(1, "log", {}, cwd, bare_exists, bare_repo)
               /\ UNCHANGED <<random_dates, commits, commit_date_map, gen_calls>>
          ELSE /\ commits' = repo
               /\ IF Regenerates(repo, random_dates)
                  THEN LET start == Strptime(start_date)
                           end == Strptime(end_date)
                           msgs == logged \cup MismatchMsgs(repo, random_dates)
                                          \cup RangeMsgs(start, end)
                       IN  \E draws \in DrawSequences(start, end, Len(repo)) :
                              LET result == GenerateRandomDateRange(start, end, draws)
                              IN  /\ random_dates' = result
                                  /\ gen_calls' =
                                        Append(gen_calls, CallRecord(Len(repo), draws, result))
                                  /\ logged' = msgs
                  ELSE /\ logged' = logged \cup MismatchMsgs(repo, random_dates)
                       /\ UNCHANGED <<random_dates, gen_calls>>
               /\ commit_date_map' = Correlate(zone, commits', random_dates')
               /\ pc' = "filter_branch"
               /\ UNCHANGED <<exit_status, failed, cwd, bare_exists, bare_repo>>
    /\ UNCHANGED <<inputs, repo, commit_count, applied>>

(***************************************************************************)
(* git filter-branch --env-filter: each commit the environment filter      *)
(* names gets its mapped timestamp as author and committer date.           *)
(***************************************************************************)
FilterBranch ==
    /\ pc = "filter_branch"
    /\ issued' = Append(issued, "filter-branch")
    /\ \E rc \in {0, 1} :
          IF rc # 0
          THEN /\ Leave(1, "filter-branch", {}, cwd, bare_exists, bare_repo)
               /\ UNCHANGED applied
          ELSE /\ applied' = commit_date_map
               /\ pc' = "cleanup"
               /\ UNCHANGED <<exit_status, failed, logged, cwd, bare_exists, bare_repo>>
    /\ UNCHANGED <<inputs, repo, commit_count, random_dates, commits, commit_date_map,
                   gen_calls>>

(***************************************************************************)
(* The removal of refs/original (and, in git_transfer_fixed, the reflog    *)
(* expiry and the garbage collection): failures are logged and ignored.    *)
(***************************************************************************)
CleanupCommands ==
    IF script = "git_transfer_fixed" THEN <<"rm-refs-original", "reflog-expire", "gc">>
    ELSE <<"for-each-ref">>

CleanupRefs ==
    /\ pc = "cleanup"
    /\ issued' = issued \o CleanupCommands
    /\ pc' = "remote"
    /\ UNCHANGED <<inputs, exit_status, logged, failed, cwd, bare_exists, bare_repo, repo,
                   dateVars>>

(***************************************************************************)
(* git remote add new-origin (after git remote remove new-origin in        *)
(* git_transfer_fixed, whose failure is ignored).                          *)
(***************************************************************************)
RemoteCommands ==
    IF script = "git_transfer_fixed" THEN <<"remote-remove", "remote-add">>
    ELSE <<"remote-add">>

\* A remote add whose failure is logged and ignored, as with
\* exit_on_error=False: the run goes on to the push.
RemoteAddIgnoringFailure ==
    /\ pc = "remote"
    /\ issued' = issued \o RemoteCommands
    /\ pc' = "push"
    /\ \E rc \in {0, 1} : failed' = (IF rc # 0 THEN "remote-add" ELSE failed)
    /\ UNCHANGED <<inputs, exit_status, logged, cwd, bare_exists, bare_repo, repo, dateVars>>

RemoteAdd ==
    /\ pc = "remote"
    /\ issued' = issued \o RemoteCommands
    /\ \E rc \in {0, 1} :
          IF rc # 0
          THEN Leave(1, "remote-add", {}, cwd, bare_exists, bare_repo)
          ELSE /\ pc' = "push"
               /\ UNCHANGED <<exit_status, failed, logged, cwd, bare_exists, bare_repo>>
    /\ UNCHANGED <<inputs, repo, dateVars>>

(***************************************************************************)
(* git push --mirror new-origin, the last statement of the try block.      *)
(***************************************************************************)
Push ==
    /\ pc = "push"
    /\ issued' = Append(issued, "push")
    /\ \E rc \in {0, 1} :
          IF rc # 0
          THEN Leave(1, "push", {}, cwd, bare_exists, bare_repo)
          ELSE Leave(0, "none",
                     IF script = "git_transfer_fixed" THEN {MsgComplete} ELSE {},
                     cwd, bare_exists, bare_repo)
    /\ UNCHANGED <<inputs, repo, dateVars>>

Next ==
    \/ Main
    \/ TransferRepo
    \/ Clone
    \/ EnsureGitFilterRepo
    \/ GetCommitCount
    \/ FilterRepo
    \/ GenerateDates
    \/ ListCommits
    \/ FilterBranch
    \/ CleanupRefs
    \/ RemoteAdd
    \/ Push

Spec == Init /\ [][Next]_vars

(***************************************************************************)
(* Properties.                                                             *)
(***************************************************************************)
InIssued(command) == \E i \in 1..Len(issued) : issued[i] = command

\* generate_random_date_range has been called (so both dates parse).
Generated == gen_calls # <<>>

LastCall == gen_calls[Len(gen_calls)]

StartDT == Strptime(start_date)
EndDT == Strptime(end_date)

\* The commit list has been read and the correlation made.
Correlated == InIssued("log") /\ failed # "log"

NonDecreasing(s) == \A i, j \in 1..Len(s) : i < j => s[i] <= s[j]

\* C1: for start < end, every call of generate_random_date_range returns
\* exactly as many timestamps as the count it was given, and for the count
\* 0 the empty sequence.
C1_ExactCount ==
    (Generated /\ StartDT < EndDT) =>
        /\ \A i \in 1..Len(gen_calls) : gen_calls[i].returned = gen_calls[i].num_commits
        /\ Len(random_dates) = LastCall.num_commits
        /\ (LastCall.num_commits = 0 => random_dates = <<>>)

\* A call with a valid range and the count 3 has returned three timestamps.
C1_Witness ==
    Generated /\ StartDT < EndDT /\ LastCall.num_commits = 3 /\ Len(random_dates) = 3

\* C2 (as claimed): for start < end, every timestamp v returned satisfies
\* start <= v < end + 1 day.
C2_WithinRange ==
    (Generated /\ StartDT < EndDT) =>
        \A i \in 1..Len(random_dates) :
            StartDT <= random_dates[i] /\ random_dates[i] < EndDT + SecondsPerDay

\* C3: the sequence generate_random_date_range returns is non-decreasing.
C3_Sorted == Generated => NonDecreasing(random_dates)

\* Three timestamps, not all equal, have been returned.
C3_Witness ==
    Generated /\ Len(random_dates) = 3 /\ random_dates[1] < random_dates[3]
              /\ random_dates[2] = random_dates[3]

\* C4: for start = end or start > end, every call of
\* generate_random_date_range logs the range error, returns the empty
\* sequence and makes no random draw, whatever the count.
C4_InvalidRange ==
    (Generated /\ StartDT >= EndDT) =>
        /\ MsgInvalidRange \in logged
        /\ random_dates = <<>>
        /\ \A i \in 1..Len(gen_calls) : gen_calls[i].returned = 0 /\ gen_calls[i].draws = 0

\* A call with start = end and a positive count has returned.
C4_Witness ==
    Generated /\ StartDT = EndDT /\ LastCall.num_commits > 0 /\ random_dates = <<>>

\* C5 (as claimed): once the range is rejected in a run that asked for date
\* modification, neither git filter-branch nor the mirror push is issued.
C5_NoRewriteAfterInvalidRange ==
    (modify_dates /\ MsgInvalidRange \in logged) =>
        ~InIssued("filter-branch") /\ ~InIssued("push")

\* C6 (as claimed): when the commit list and the date list have the same
\* length, every commit has an entry in the mapping and the mapped
\* timestamps do not decrease from the oldest commit to the newest.
C6_MappingMonotone ==
    (Correlated /\ Len(commits) = Len(random_dates)) =>
        /\ DOMAIN commit_date_map = {commits[i] : i \in 1..Len(commits)}
        /\ \A i, j \in 1..Len(commits) :
              i < j => commit_date_map[commits[i]] <= commit_date_map[commits[j]]

\* C7 (as claimed): when, for a valid range, the number of dates differs
\* from the number of commits at the correlation, the mismatch is signalled
\* and no mapping is produced or applied.
C7_MismatchStopsMapping ==
    (Correlated /\ StartDT < EndDT /\ Len(random_dates) # Len(commits)) =>
        /\ MsgMismatch \in logged
        /\ DOMAIN commit_date_map = {}
        /\ ~InIssued("filter-branch")

\* C8 (as claimed): when, for a valid range, the count used for date
\* generation differs from the number of commits listed, in either
\* direction, a warning is logged and the dates are generated again for the
\* number of commits listed, so that every commit gets a date.
C8_Regenerated ==
    (Correlated /\ StartDT < EndDT /\ gen_calls[1].num_commits # Len(commits)) =>
        /\ MsgMismatch \in logged
        /\ Len(gen_calls) = 2
        /\ LastCall.num_commits = Len(commits)
        /\ DOMAIN commit_date_map = {commits[i] : i \in 1..Len(commits)}

\* An input the scripts are meant to reject: a URL with a bad scheme, a
\* repository name that cannot be extracted, a clone directory missing after
\* the clone, a malformed date, start >= end.
InvalidInput ==
    \/ ~ValidRepoUrl(old_repo_url)
    \/ ~ValidRepoUrl(new_repo_url)
    \/ ~ExtractRepoName(old_repo_url).found
    \/ MsgCloneMissing \in logged
    \/ modify_dates /\ ~(StrptimeOk(start_date) /\ StrptimeOk(end_date))
    \/ modify_dates /\ StrptimeOk(start_date) /\ StrptimeOk(end_date) /\ StartDT >= EndDT

\* C9 (as claimed): a run the user confirmed ends with a non-zero status
\* when an input is invalid or a mandatory command failed, and a status of 0
\* means that every step completed or that the user declined.
C9_ExitStatus ==
    pc = "exited" =>
        /\ (confirm /\ (InvalidInput \/ failed # "none")) => exit_status # 0
        /\ exit_status = 0 => (~confirm \/ (InIssued("push") /\ failed = "none"))

\* The call of the scenario: 2020-01-01, 2020-01-02 and the count 3.
Jan1 == Midnight(2020, 1, 1)
Jan2 == Midnight(2020, 1, 2)
Jan3 == Midnight(2020, 1, 3)

C10_Case ==
    Generated /\ start_date = D20200101 /\ end_date = D20200102 /\ LastCall.num_commits = 3

\* C10 (as claimed): for 2020-01-01, 2020-01-02 and the count 3, the three
\* timestamps returned lie within the day 2020-01-01 and are in ascending
\* order.
C10_SingleDay ==
    C10_Case =>
        /\ Len(random_dates) = 3
        /\ NonDecreasing(random_dates)
        /\ \A i \in 1..Len(random_dates) :
              Jan1 <= random_dates[i] /\ random_dates[i] < Jan2

\* C10 (amended): for 2020-01-01, 2020-01-02 and the count 3, the three
\* timestamps returned lie between 2020-01-01 00:00:00 and 2020-01-03
\* 00:00:00, both included, and are in ascending order.
C10_TwoDays ==
    C10_Case =>
        /\ Len(random_dates) = 3
        /\ NonDecreasing(random_dates)
        /\ \A i \in 1..Len(random_dates) :
              Jan1 <= random_dates[i] /\ random_dates[i] <= Jan3

\* The three timestamps of that call begin on 2020-01-01 and end after it.
C10_Witness ==
    C10_Case /\ Len(random_dates) = 3
             /\ random_dates[1] < Jan2
             /\ random_dates[3] >= Jan2

(***************************************************************************)
(* The order of the external commands.                                     *)
(***************************************************************************)
\* The commands run with exit_on_error left at True.
Mandatory == {"clone", "filter-repo", "log", "filter-branch", "remote-add", "push"}

\* The steps the run goes through, in the order of the script; "which" is
\* the first command of the git-filter-repo check.
StepOrder == <<"clone", "which", "filter-repo", "filter-branch", "remote-add", "push">>

Places(command) == {i \in 1..Len(issued) : issued[i] = command}

\* "if modify_dates and start_date and end_date"
DatesRequested == modify_dates /\ start_date # None /\ end_date # None

\* C11: the commands are issued in the order clone, git-filter-repo check,
\* author rewrite, date rewrite (only when requested), remote add, mirror
\* push, none of them skipped and the mandatory ones once each; a mandatory
\* command that failed is the last command of the run; and the push is
\* issued only when no earlier mandatory command failed.
C11_CommandOrder ==
    /\ \A a, b \in 1..Len(StepOrder) :
          (a < b /\ InIssued(StepOrder[a]) /\ InIssued(StepOrder[b])) =>
              Max(Places(StepOrder[a])) < Min(Places(StepOrder[b]))
    /\ \A b \in 2..Len(StepOrder) :
          InIssued(StepOrder[b]) =>
              \/ InIssued(StepOrder[b - 1])
              \/ StepOrder[b] = "remote-add" /\ ~DatesRequested /\ InIssued("filter-repo")
    /\ InIssued("filter-branch") => DatesRequested
    /\ \A c \in Mandatory : Cardinality(Places(c)) <= 1
    /\ failed \in Mandatory => (pc = "exited" /\ issued[Len(issued)] = failed)
    /\ InIssued("push") => failed \in {"none", "push"}

\* A run with date modification has issued every step and ended with the
\* push succeeding.
C11_Witness ==
    /\ pc = "exited"
    /\ exit_status = 0
    /\ DatesRequested
    /\ \A b \in 1..Len(StepOrder) : InIssued(StepOrder[b])

(***************************************************************************)
(* The end of transfer_repo: the clone directory and the final message.    *)
(***************************************************************************)
\* os.chdir(bare_repo) has been executed: the git-filter-repo check is the
\* first command issued from inside the clone directory.
Entered == InIssued("which")

\* C12: whenever transfer_repo has ended after the clone directory was
\* created and entered, the clone directory has been removed and the
\* working directory is the one transfer_repo was called in.
C12_CleanedUp ==
    (pc = "exited" /\ Entered) => (cwd = "original" /\ ~bare_exists)

\* C13: "Repository transfer complete!" is logged only in runs in which the
\* mirror push was issued and returned exit status 0.
C13_CompleteOnlyAfterPush ==
    MsgComplete \in logged => (InIssued("push") /\ failed = "none")

=============================================================================
